---- MODULE Spec2Model ----
(***************************************************************************)
(* Model of the quobyte volume driver of convoy (src/quobyte/quobyte.go).  *)
(*                                                                         *)
(* Strings that the code takes apart or joins are sequences:               *)
(*   - a path is the sequence of its components, "" is <<>>;               *)
(*   - the registries option is the sequence of its characters.            *)
(* All other strings are TLA+ strings, "" is "".                           *)
(***************************************************************************)
EXTENDS Integers, Sequences, FiniteSets, TLC

\* ------------------------------------------------------------------ bounds
MaxVolumes == 2
MaxThreads == 2
MaxRemote == 2
\* storage, remote and mount failures (and crashes in mid-operation) per run
MaxFaults == 1

NamePool == <<"vol1", "vol2", "vol3", "vol4">>
UuidPool == <<"abc-123", "def-456", "ghi-789", "jkl-012">>

Names == {NamePool[i] : i \in 1..MaxVolumes}
UUIDs == {UuidPool[i] : i \in 1..MaxRemote}

\* goroutine 0 runs Init; the others serve client requests
MainThread == 0
Clients == 1..MaxThreads
Threads == {MainThread} \cup Clients
NoThread == -1

\* --------------------------------------------------------------- constants
DRIVER_NAME == "quobyte"
MOUNTS_DIR == "mounts"
QUOBYTE_API_URL == "quobyte.apiurl"
QUOBYTE_REGISTRIES == "quobyte.registries"
QUOBYTE_DEFAULT_USER == "quobyte.defaultuser"
QUOBYTE_DEFAULT_GROUP == "quobyte.defaultgroup"
QUOBYTE_DEFAULT_VOLUME_CONFIG == "quobyte.defaultvolumeconfig"

Root == "/var/lib/convoy"

\* error values (nil is no error)
Nil == "nil"
AlreadyExists == "AlreadyExists"
StillMounted == "StillMounted"
NotFound == "NotFound"
StorageError == "StorageError"
RemoteError == "RemoteError"
MountError == "MountError"
UnmountError == "UnmountError"
ConfigError == "ConfigError"

VARIABLES
    store,      \* volume records on disk: name -> exported fields of QuobyteVolume
    cfgStore,   \* the persisted Device record: a set holding it, or {}
    remote,     \* remote IDs provisioned at the storage cluster
    mounts,     \* OS-level mounts: <<device, mount point>>
    phase,      \* "down" | "init" | "initret" | "up"
    driver,     \* the Driver's Device once Init built it
    init,       \* locals of Init / remountVolumes
    lock,       \* holder of d.mutex, or NoThread
    pc,         \* position of each goroutine in its handler
    req,        \* the Request each goroutine serves
    vol,        \* the handler's local *QuobyteVolume
    ret,        \* the handler's return values
    list,       \* locals of ListVolume
    pre,        \* history: store, remote, mounts when the lock was taken
    calls,      \* history: external calls made since the lock was taken
    creates,    \* history: per name, the CreateVolume calls since no record
    faults      \* history: failures injected so far

vars == <<store, cfgStore, remote, mounts, phase, driver, init, lock, pc, req,
          vol, ret, list, pre, calls, creates, faults>>

\* ------------------------------------------------------------------- types
ZeroVolume ==
    [Name |-> "", ID |-> "", MountPoint |-> <<>>, configPath |-> "",
     User |-> "", Group |-> "", Device |-> "", Config |-> ""]

ZeroDevice ==
    [Root |-> "", Registries |-> <<>>, User |-> "", Group |-> "",
     VolumeConfig |-> ""]

NoOptions == [reference_only |-> "", mount_point |-> <<>>]
NoRequest == [op |-> "", Name |-> "", Options |-> NoOptions]
NoReturn == [err |-> "", val |-> <<>>]
NoList == [active |-> FALSE, ids |-> {}, volumes |-> {}, ret |-> <<>>]
NoPre == [store |-> <<>>, remote |-> {}, mounts |-> {}]
NoInit == [volumes |-> {}, snap |-> <<>>, execs |-> <<>>, failed |-> FALSE,
           err |-> ""]
NoCreate == [remote |-> 0, ok |-> 0, id |-> ""]
NilInfo == [MountPoint |-> <<>>, ID |-> "", VolumeName |-> ""]

\* ---------------------------------------------------------- pure functions
\* (d *Driver) blankVolume
blankVolume(name) ==
    [ZeroVolume EXCEPT !.configPath = driver.Root, !.Name = name]

\* (v *QuobyteVolume) GenerateDefaultMountPoint: filepath.Join
GenerateDefaultMountPoint(v) == <<v.configPath, MOUNTS_DIR, v.Name>>

\* (v *QuobyteVolume) GetDevice
GetDevice(v) == v.Device

\* strconv.ParseBool with the error dropped (value false on error)
ParseBool(s) == s \in {"1", "t", "T", "TRUE", "true", "True"}

\* the fields encoding/json writes: configPath is unexported
Exported(v) ==
    [Name |-> v.Name, ID |-> v.ID, MountPoint |-> v.MountPoint,
     User |-> v.User, Group |-> v.Group, Device |-> v.Device,
     Config |-> v.Config]

\* util.ObjectExists on a volume
ObjectExists(v) == v.Name \in DOMAIN store

\* util.ObjectLoad on a volume: the stored fields over the blank volume
ObjectLoad(v) ==
    LET r == store[v.Name] IN
    [v EXCEPT !.Name = r.Name, !.ID = r.ID, !.MountPoint = r.MountPoint,
              !.User = r.User, !.Group = r.Group, !.Device = r.Device,
              !.Config = r.Config]

\* util.ObjectSave on a volume
ObjectSave(v) ==
    [k \in DOMAIN store \cup {v.Name} |->
        IF k = v.Name THEN Exported(v) ELSE store[k]]

\* util.ObjectDelete on a volume
ObjectDelete(v) == [k \in DOMAIN store \ {v.Name} |-> store[k]]

\* util.ListConfigIDs
ListConfigIDs == DOMAIN store

\* the info map GetVolumeInfo builds
VolumeInfo(v, name) ==
    [MountPoint |-> v.MountPoint, ID |-> v.ID, VolumeName |-> name]

\* ------------------------------------------------------------------ mutex
\* mutant: Lock that does not wait for the holder
Lock_NoWait(t) ==
    /\ lock' = t
    /\ pre' = [store |-> store, remote |-> remote, mounts |-> mounts]
    /\ calls' = {}
    /\ UNCHANGED creates

\* d.mutex.Lock(), with the history variables reset
Lock(t) ==
    /\ lock = NoThread
    /\ lock' = t
    /\ pre' = [store |-> store, remote |-> remote, mounts |-> mounts]
    /\ calls' = {}
    /\ UNCHANGED creates

\* the deferred d.mutex.Unlock()
Unlock(t) ==
    /\ lock' = NoThread
    /\ pre' = NoPre
    /\ calls' = {}
    /\ UNCHANGED creates

\* an external call fails / does not fail
Fault == faults < MaxFaults /\ faults' = faults + 1
NoFault == UNCHANGED faults

\* d.client.CreateVolume returns the id of a new remote volume
NewVolumeUUID ==
    LET free == {i \in 1..MaxRemote : UuidPool[i] \notin remote} IN
    UuidPool[CHOOSE i \in free : \A j \in free : i <= j]

\* history: what the lock holder's call of `name` adds to creates. The count
\* for a volume name starts again when a call fails inside a CreateVolume
\* that found no record, and when DeleteVolume removes the record
Created(name, ok) ==
    IF lock \notin Threads THEN creates
    ELSE LET op == req[lock].op
             n == req[lock].Name
         IN IF op = "CreateVolume" /\ ~ok
            THEN IF n \in DOMAIN store
                 THEN creates
                 ELSE [creates EXCEPT ![n] = NoCreate]
            ELSE IF op = "CreateVolume" /\ name = "client.CreateVolume"
            THEN [creates EXCEPT ![n].remote = IF @ < 2 THEN @ + 1 ELSE @,
                                 ![n].id = IF UUIDs \ remote = {}
                                           THEN ""
                                           ELSE NewVolumeUUID]
            ELSE IF op = "CreateVolume" /\ name = "util.ObjectSave"
            THEN [creates EXCEPT ![n].ok = IF @ < 2 THEN @ + 1 ELSE @]
            ELSE IF op = "DeleteVolume" /\ name = "util.ObjectDelete" /\ ok
            THEN [creates EXCEPT ![n] = NoCreate]
            ELSE creates

\* history: the lock holder called `name`, which succeeded (ok) or failed
Call(name, ok) ==
    /\ calls' = calls \cup {<<name, ok>>}
    /\ creates' = Created(name, ok)
Called(name) == \E c \in calls : c[1] = name

Goto(t, l) == pc' = [pc EXCEPT ![t] = l]
Result(t, e, v) == ret' = [ret EXCEPT ![t] = [err |-> e, val |-> v]]

\* a client goroutine enters a handler
Enter(t, op, name, opts) ==
    /\ phase = "up"
    /\ t \in Clients
    /\ pc[t] = "idle"
    /\ req' = [req EXCEPT ![t] = [op |-> op, Name |-> name, Options |-> opts]]

\* ----------------------------------------------------------- CreateVolume
\* mutant: CreateVolume does not wait for the holder of the lock
CreateVolume_Unlocked(t, name) ==
    /\ Enter(t, "CreateVolume", name, NoOptions)
    /\ Lock_NoWait(t)
    /\ vol' = [vol EXCEPT ![t] = blankVolume(name)]
    /\ Goto(t, "create_exists")
    /\ UNCHANGED <<store, cfgStore, remote, mounts, phase, driver, init, ret,
                   list, faults>>

CreateVolume(t, name) ==
    /\ Enter(t, "CreateVolume", name, NoOptions)
    /\ Lock(t)
    /\ vol' = [vol EXCEPT ![t] = blankVolume(name)]
    /\ Goto(t, "create_exists")
    /\ UNCHANGED <<store, cfgStore, remote, mounts, phase, driver, init, ret,
                   list, faults>>

\* mutant: the existence check does not stop the create
CreateVolume_Exists_NoCheck(t) ==
    /\ pc[t] = "create_exists"
    /\ \/ /\ Fault
          /\ Call("util.ObjectExists", FALSE)
          /\ Result(t, StorageError, <<>>)
          /\ Goto(t, "ret")
       \/ /\ NoFault
          /\ Call("util.ObjectExists", TRUE)
          /\ Goto(t, "create_remote")
          /\ UNCHANGED ret
    /\ UNCHANGED <<store, cfgStore, remote, mounts, phase, driver, init, lock,
                   req, vol, list, pre>>

CreateVolume_Exists(t) ==
    /\ pc[t] = "create_exists"
    /\ \/ /\ Fault
          /\ Call("util.ObjectExists", FALSE)
          /\ Result(t, StorageError, <<>>)
          /\ Goto(t, "ret")
       \/ /\ NoFault
          /\ Call("util.ObjectExists", TRUE)
          /\ ObjectExists(vol[t])
          /\ Result(t, AlreadyExists, <<>>)
          /\ Goto(t, "ret")
       \/ /\ NoFault
          /\ Call("util.ObjectExists", TRUE)
          /\ ~ObjectExists(vol[t])
          /\ Goto(t, "create_remote")
          /\ UNCHANGED ret
    /\ UNCHANGED <<store, cfgStore, remote, mounts, phase, driver, init, lock,
                   req, vol, list, pre>>

CreateVolume_Remote(t) ==
    /\ pc[t] = "create_remote"
    /\ \/ /\ Fault
          /\ Call("client.CreateVolume", FALSE)
          /\ Result(t, RemoteError, <<>>)
          /\ Goto(t, "ret")
          /\ UNCHANGED <<remote, vol>>
       \/ /\ NoFault
          /\ Call("client.CreateVolume", FALSE)
          /\ UUIDs \ remote = {}
          /\ Result(t, RemoteError, <<>>)
          /\ Goto(t, "ret")
          /\ UNCHANGED <<remote, vol>>
       \/ /\ NoFault
          /\ Call("client.CreateVolume", TRUE)
          /\ UUIDs \ remote # {}
          /\ LET volume_uuid == NewVolumeUUID IN
             /\ remote' = remote \cup {volume_uuid}
             /\ vol' = [vol EXCEPT ![t] =
                           [@ EXCEPT !.Name = req[t].Name,
                                     !.ID = volume_uuid,
                                     !.User = driver.User,
                                     !.Group = driver.Group,
                                     !.Config = driver.VolumeConfig,
                                     !.Device = req[t].Name]]
          /\ Goto(t, "create_save")
          /\ UNCHANGED ret
    /\ UNCHANGED <<store, cfgStore, mounts, phase, driver, init, lock, req,
                   list, pre>>

CreateVolume_Save(t) ==
    /\ pc[t] = "create_save"
    /\ \/ /\ NoFault
          /\ Call("util.ObjectSave", TRUE)
          /\ store' = ObjectSave(vol[t])
          /\ Result(t, Nil, <<>>)
       \/ /\ Fault
          /\ Call("util.ObjectSave", FALSE)
          /\ Result(t, StorageError, <<>>)
          /\ UNCHANGED store
    /\ Goto(t, "ret")
    /\ UNCHANGED <<cfgStore, remote, mounts, phase, driver, init, lock, req,
                   vol, list, pre>>

\* ----------------------------------------------------------- DeleteVolume
ReferenceOnlyOpts == {"", "true", "false", "yes"}

DeleteVolume(t, name, refOnly) ==
    /\ Enter(t, "DeleteVolume", name,
             [NoOptions EXCEPT !.reference_only = refOnly])
    /\ Lock(t)
    /\ vol' = [vol EXCEPT ![t] = blankVolume(name)]
    /\ Goto(t, "delete_load")
    /\ UNCHANGED <<store, cfgStore, remote, mounts, phase, driver, init, ret,
                   list, faults>>

\* mutant: a mounted volume is deleted like an unmounted one
DeleteVolume_Load_NoMountCheck(t) ==
    /\ pc[t] = "delete_load"
    /\ \/ /\ Fault
          /\ Call("util.ObjectLoad", FALSE)
          /\ Result(t, StorageError, <<>>)
          /\ Goto(t, "ret")
          /\ UNCHANGED vol
       \/ /\ NoFault
          /\ Call("util.ObjectLoad", FALSE)
          /\ ~ObjectExists(vol[t])
          /\ Result(t, NotFound, <<>>)
          /\ Goto(t, "ret")
          /\ UNCHANGED vol
       \/ /\ NoFault
          /\ Call("util.ObjectLoad", TRUE)
          /\ ObjectExists(vol[t])
          /\ vol' = [vol EXCEPT ![t] = ObjectLoad(vol[t])]
          /\ UNCHANGED ret
          /\ IF ~ParseBool(req[t].Options.reference_only)
             THEN Goto(t, "delete_remote")
             ELSE Goto(t, "delete_delete")
    /\ UNCHANGED <<store, cfgStore, remote, mounts, phase, driver, init, lock,
                   req, list, pre>>

\* mutant: the reference-only option is not looked at
DeleteVolume_Load_AlwaysRemote(t) ==
    /\ pc[t] = "delete_load"
    /\ \/ /\ Fault
          /\ Call("util.ObjectLoad", FALSE)
          /\ Result(t, StorageError, <<>>)
          /\ Goto(t, "ret")
          /\ UNCHANGED vol
       \/ /\ NoFault
          /\ Call("util.ObjectLoad", FALSE)
          /\ ~ObjectExists(vol[t])
          /\ Result(t, NotFound, <<>>)
          /\ Goto(t, "ret")
          /\ UNCHANGED vol
       \/ /\ NoFault
          /\ Call("util.ObjectLoad", TRUE)
          /\ ObjectExists(vol[t])
          /\ LET volume == ObjectLoad(vol[t]) IN
             /\ vol' = [vol EXCEPT ![t] = volume]
             /\ IF volume.MountPoint # <<>>
                THEN /\ Result(t, StillMounted, <<>>)
                     /\ Goto(t, "ret")
                ELSE /\ UNCHANGED ret
                     /\ Goto(t, "delete_remote")
    /\ UNCHANGED <<store, cfgStore, remote, mounts, phase, driver, init, lock,
                   req, list, pre>>

DeleteVolume_Load(t) ==
    /\ pc[t] = "delete_load"
    /\ \/ /\ Fault
          /\ Call("util.ObjectLoad", FALSE)
          /\ Result(t, StorageError, <<>>)
          /\ Goto(t, "ret")
          /\ UNCHANGED vol
       \/ /\ NoFault
          /\ Call("util.ObjectLoad", FALSE)
          /\ ~ObjectExists(vol[t])
          /\ Result(t, NotFound, <<>>)
          /\ Goto(t, "ret")
          /\ UNCHANGED vol
       \/ /\ NoFault
          /\ Call("util.ObjectLoad", TRUE)
          /\ ObjectExists(vol[t])
          /\ LET volume == ObjectLoad(vol[t]) IN
             /\ vol' = [vol EXCEPT ![t] = volume]
             /\ IF volume.MountPoint # <<>>
                THEN /\ Result(t, StillMounted, <<>>)
                     /\ Goto(t, "ret")
                ELSE /\ UNCHANGED ret
                     /\ IF ~ParseBool(req[t].Options.reference_only)
                        THEN Goto(t, "delete_remote")
                        ELSE Goto(t, "delete_delete")
    /\ UNCHANGED <<store, cfgStore, remote, mounts, phase, driver, init, lock,
                   req, list, pre>>

\* mutant: the error of the remote delete is dropped
DeleteVolume_Remote_IgnoreError(t) ==
    /\ pc[t] = "delete_remote"
    /\ \/ /\ Fault
          /\ Call("client.DeleteVolume", FALSE)
          /\ UNCHANGED remote
       \/ /\ NoFault
          /\ Call("client.DeleteVolume", TRUE)
          /\ remote' = remote \ {vol[t].ID}
    /\ Goto(t, "delete_delete")
    /\ UNCHANGED <<store, cfgStore, mounts, phase, driver, init, lock, req,
                   vol, ret, list, pre>>

DeleteVolume_Remote(t) ==
    /\ pc[t] = "delete_remote"
    /\ \/ /\ Fault
          /\ Call("client.DeleteVolume", FALSE)
          /\ Result(t, RemoteError, <<>>)
          /\ Goto(t, "ret")
          /\ UNCHANGED remote
       \/ /\ NoFault
          /\ Call("client.DeleteVolume", TRUE)
          /\ remote' = remote \ {vol[t].ID}
          /\ Goto(t, "delete_delete")
          /\ UNCHANGED ret
    /\ UNCHANGED <<store, cfgStore, mounts, phase, driver, init, lock, req,
                   vol, list, pre>>

\* mutant: the delete removes every record
DeleteVolume_Delete_Every(t) ==
    /\ pc[t] = "delete_delete"
    /\ \/ /\ NoFault
          /\ Call("util.ObjectDelete", TRUE)
          /\ store' = <<>>
          /\ Result(t, Nil, <<>>)
       \/ /\ Fault
          /\ Call("util.ObjectDelete", FALSE)
          /\ Result(t, StorageError, <<>>)
          /\ UNCHANGED store
    /\ Goto(t, "ret")
    /\ UNCHANGED <<cfgStore, remote, mounts, phase, driver, init, lock, req,
                   vol, list, pre>>

DeleteVolume_Delete(t) ==
    /\ pc[t] = "delete_delete"
    /\ \/ /\ NoFault
          /\ Call("util.ObjectDelete", TRUE)
          /\ store' = ObjectDelete(vol[t])
          /\ Result(t, Nil, <<>>)
       \/ /\ Fault
          /\ Call("util.ObjectDelete", FALSE)
          /\ Result(t, StorageError, <<>>)
          /\ UNCHANGED store
    /\ Goto(t, "ret")
    /\ UNCHANGED <<cfgStore, remote, mounts, phase, driver, init, lock, req,
                   vol, list, pre>>

\* ------------------------------------------------------------ MountVolume
MountPointHint == <<"mnt", "x">>
MountPointOpts == {<<>>, MountPointHint}

\* MountVolume up to the Lock; remountVolumes calls it too
MountVolume_Enter(t, name, opts) ==
    /\ pc[t] = "idle"
    /\ req' = [req EXCEPT ![t] =
                  [op |-> "MountVolume", Name |-> name, Options |-> opts]]
    /\ Lock(t)
    /\ vol' = [vol EXCEPT ![t] = blankVolume(name)]
    /\ Goto(t, "mount_load")

MountVolume(t, name, hint) ==
    /\ phase = "up"
    /\ t \in Clients
    /\ MountVolume_Enter(t, name, [NoOptions EXCEPT !.mount_point = hint])
    /\ UNCHANGED <<store, cfgStore, remote, mounts, phase, driver, init, ret,
                   list, faults>>

MountVolume_Load(t) ==
    /\ pc[t] = "mount_load"
    /\ \/ /\ Fault
          /\ Call("util.ObjectLoad", FALSE)
          /\ Result(t, StorageError, <<>>)
          /\ Goto(t, "ret")
          /\ UNCHANGED vol
       \/ /\ NoFault
          /\ Call("util.ObjectLoad", FALSE)
          /\ ~ObjectExists(vol[t])
          /\ Result(t, NotFound, <<>>)
          /\ Goto(t, "ret")
          /\ UNCHANGED vol
       \/ /\ NoFault
          /\ Call("util.ObjectLoad", TRUE)
          /\ ObjectExists(vol[t])
          /\ vol' = [vol EXCEPT ![t] = ObjectLoad(vol[t])]
          /\ Goto(t, "mount_exec")
          /\ UNCHANGED ret
    /\ UNCHANGED <<store, cfgStore, remote, mounts, phase, driver, init, lock,
                   req, list, pre>>

\* util.VolumeMount: the mount point it mounts at
VolumeMountTarget(v, mountPoint) ==
    IF mountPoint = <<>> THEN GenerateDefaultMountPoint(v) ELSE mountPoint

\* util.VolumeMount: the record after a successful mount
VolumeMount(v, mountPoint) ==
    [v EXCEPT !.MountPoint = VolumeMountTarget(v, mountPoint)]

\* util.VolumeUmount: the record after a successful unmount
VolumeUmount(v) == [v EXCEPT !.MountPoint = <<>>]

\* util.VolumeMount may refuse a volume recorded as mounted somewhere else
VolumeMountConflict(v, mountPoint) ==
    v.MountPoint # <<>> /\ v.MountPoint # VolumeMountTarget(v, mountPoint)

\* mutant: the mount point is recorded although the mount failed
MountVolume_Exec_RecordOnError(t) ==
    /\ pc[t] = "mount_exec"
    /\ init' = IF phase = "remount"
               THEN [init EXCEPT !.execs[req[t].Name] = @ + 1]
               ELSE init
    /\ LET mountPoint ==
              VolumeMountTarget(vol[t], req[t].Options.mount_point) IN
       \/ /\ Fault
          /\ Call("util.VolumeMount", FALSE)
          /\ vol' = [vol EXCEPT ![t].MountPoint = mountPoint]
          /\ Result(t, MountError, <<>>)
          /\ UNCHANGED mounts
       \/ /\ NoFault
          /\ Call("util.VolumeMount", TRUE)
          /\ mounts' = mounts \cup {<<GetDevice(vol[t]), mountPoint>>}
          /\ vol' = [vol EXCEPT ![t].MountPoint = mountPoint]
          /\ Result(t, Nil, mountPoint)
    /\ Goto(t, "mount_save")
    /\ UNCHANGED <<store, cfgStore, remote, phase, driver, lock, req, list,
                   pre>>

MountVolume_Exec(t) ==
    /\ pc[t] = "mount_exec"
    /\ init' = IF phase = "remount"
               THEN [init EXCEPT !.execs[req[t].Name] = @ + 1]
               ELSE init
    /\ \/ /\ Fault
          /\ Call("util.VolumeMount", FALSE)
          /\ Result(t, MountError, <<>>)
          /\ Goto(t, "ret")
          /\ UNCHANGED <<mounts, vol>>
       \/ /\ NoFault
          /\ Call("util.VolumeMount", FALSE)
          /\ VolumeMountConflict(vol[t], req[t].Options.mount_point)
          /\ Result(t, MountError, <<>>)
          /\ Goto(t, "ret")
          /\ UNCHANGED <<mounts, vol>>
       \/ /\ NoFault
          /\ Call("util.VolumeMount", TRUE)
          /\ LET mounted == VolumeMount(vol[t], req[t].Options.mount_point)
                 mountPoint == mounted.MountPoint IN
             /\ mounts' = mounts \cup {<<GetDevice(vol[t]), mountPoint>>}
             /\ vol' = [vol EXCEPT ![t] = mounted]
             /\ Result(t, Nil, mountPoint)
          /\ Goto(t, "mount_save")
    /\ UNCHANGED <<store, cfgStore, remote, phase, driver, lock, req, list,
                   pre>>

\* mutant: the record is not saved after the mount
MountVolume_Save_Skipped(t) ==
    /\ pc[t] = "mount_save"
    /\ NoFault
    /\ Goto(t, "ret")
    /\ UNCHANGED <<store, cfgStore, remote, mounts, phase, driver, init, lock,
                   req, vol, ret, list, pre, calls, creates>>

MountVolume_Save(t) ==
    /\ pc[t] = "mount_save"
    /\ \/ /\ NoFault
          /\ Call("util.ObjectSave", TRUE)
          /\ store' = ObjectSave(vol[t])
          /\ UNCHANGED ret
       \/ /\ Fault
          /\ Call("util.ObjectSave", FALSE)
          /\ Result(t, StorageError, <<>>)
          /\ UNCHANGED store
    /\ Goto(t, "ret")
    /\ UNCHANGED <<cfgStore, remote, mounts, phase, driver, init, lock, req,
                   vol, list, pre>>

\* ----------------------------------------------------------- UmountVolume
UmountVolume(t, name) ==
    /\ Enter(t, "UmountVolume", name, NoOptions)
    /\ Lock(t)
    /\ vol' = [vol EXCEPT ![t] = blankVolume(name)]
    /\ Goto(t, "umount_load")
    /\ UNCHANGED <<store, cfgStore, remote, mounts, phase, driver, init, ret,
                   list, faults>>

UmountVolume_Load(t) ==
    /\ pc[t] = "umount_load"
    /\ \/ /\ Fault
          /\ Call("util.ObjectLoad", FALSE)
          /\ Result(t, StorageError, <<>>)
          /\ Goto(t, "ret")
          /\ UNCHANGED vol
       \/ /\ NoFault
          /\ Call("util.ObjectLoad", FALSE)
          /\ ~ObjectExists(vol[t])
          /\ Result(t, NotFound, <<>>)
          /\ Goto(t, "ret")
          /\ UNCHANGED vol
       \/ /\ NoFault
          /\ Call("util.ObjectLoad", TRUE)
          /\ ObjectExists(vol[t])
          /\ vol' = [vol EXCEPT ![t] = ObjectLoad(vol[t])]
          /\ Goto(t, "umount_exec")
          /\ UNCHANGED ret
    /\ UNCHANGED <<store, cfgStore, remote, mounts, phase, driver, init, lock,
                   req, list, pre>>

UmountVolume_Exec(t) ==
    /\ pc[t] = "umount_exec"
    /\ \/ /\ Fault
          /\ Call("util.VolumeUmount", FALSE)
          /\ Result(t, UnmountError, <<>>)
          /\ Goto(t, "ret")
          /\ UNCHANGED <<mounts, vol>>
       \/ /\ NoFault
          /\ Call("util.VolumeUmount", FALSE)
          /\ vol[t].MountPoint = <<>>
          /\ Result(t, UnmountError, <<>>)
          /\ Goto(t, "ret")
          /\ UNCHANGED <<mounts, vol>>
       \/ /\ NoFault
          /\ Call("util.VolumeUmount", TRUE)
          /\ mounts' = mounts \ {<<GetDevice(vol[t]), vol[t].MountPoint>>}
          /\ vol' = [vol EXCEPT ![t] = VolumeUmount(vol[t])]
          /\ Goto(t, "umount_save")
          /\ UNCHANGED ret
    /\ UNCHANGED <<store, cfgStore, remote, phase, driver, init, lock, req,
                   list, pre>>

\* mutant: the record is saved without the fields that were loaded
UmountVolume_Save_Blank(t) ==
    /\ pc[t] = "umount_save"
    /\ \/ /\ NoFault
          /\ Call("util.ObjectSave", TRUE)
          /\ store' = ObjectSave(blankVolume(req[t].Name))
          /\ Result(t, Nil, <<>>)
       \/ /\ Fault
          /\ Call("util.ObjectSave", FALSE)
          /\ Result(t, StorageError, <<>>)
          /\ UNCHANGED store
    /\ Goto(t, "ret")
    /\ UNCHANGED <<cfgStore, remote, mounts, phase, driver, init, lock, req,
                   vol, list, pre>>

UmountVolume_Save(t) ==
    /\ pc[t] = "umount_save"
    /\ \/ /\ NoFault
          /\ Call("util.ObjectSave", TRUE)
          /\ store' = ObjectSave(vol[t])
          /\ Result(t, Nil, <<>>)
       \/ /\ Fault
          /\ Call("util.ObjectSave", FALSE)
          /\ Result(t, StorageError, <<>>)
          /\ UNCHANGED store
    /\ Goto(t, "ret")
    /\ UNCHANGED <<cfgStore, remote, mounts, phase, driver, init, lock, req,
                   vol, list, pre>>

\* ------------------------------------------------------------- MountPoint
\* no lock is taken
MountPoint(t, name) ==
    /\ Enter(t, "MountPoint", name, NoOptions)
    /\ LET v == blankVolume(name) IN
       \/ /\ Fault
          /\ Result(t, StorageError, <<>>)
          /\ vol' = [vol EXCEPT ![t] = v]
       \/ /\ NoFault
          /\ ~ObjectExists(v)
          /\ Result(t, NotFound, <<>>)
          /\ vol' = [vol EXCEPT ![t] = v]
       \/ /\ NoFault
          /\ ObjectExists(v)
          /\ vol' = [vol EXCEPT ![t] = ObjectLoad(v)]
          /\ Result(t, Nil, ObjectLoad(v).MountPoint)
    /\ Goto(t, "mountpoint_ret")
    /\ UNCHANGED <<store, cfgStore, remote, mounts, phase, driver, init, lock,
                   list, pre, calls, creates>>

MountPoint_Return(t) ==
    /\ pc[t] = "mountpoint_ret"
    /\ Goto(t, "idle")
    /\ req' = [req EXCEPT ![t] = NoRequest]
    /\ vol' = [vol EXCEPT ![t] = ZeroVolume]
    /\ ret' = [ret EXCEPT ![t] = NoReturn]
    /\ UNCHANGED <<store, cfgStore, remote, mounts, phase, driver, init, lock,
                   list, pre, calls, creates, faults>>

\* ---------------------------------------------------------- GetVolumeInfo
\* GetVolumeInfo up to the Lock; ListVolume calls it too
GetVolumeInfo_Enter(t, name) ==
    /\ req' = [req EXCEPT ![t] =
                  [op |-> "GetVolumeInfo", Name |-> name,
                   Options |-> NoOptions]]
    /\ Lock(t)
    /\ vol' = [vol EXCEPT ![t] = blankVolume(name)]
    /\ Goto(t, "info_load")

GetVolumeInfo(t, name) ==
    /\ phase = "up"
    /\ t \in Clients
    /\ pc[t] = "idle"
    /\ GetVolumeInfo_Enter(t, name)
    /\ UNCHANGED <<store, cfgStore, remote, mounts, phase, driver, init, ret,
                   list, faults>>

GetVolumeInfo_Load(t) ==
    /\ pc[t] = "info_load"
    /\ \/ /\ Fault
          /\ Call("util.ObjectLoad", FALSE)
          /\ Result(t, StorageError, NilInfo)
          /\ UNCHANGED vol
       \/ /\ NoFault
          /\ Call("util.ObjectLoad", FALSE)
          /\ ~ObjectExists(vol[t])
          /\ Result(t, NotFound, NilInfo)
          /\ UNCHANGED vol
       \/ /\ NoFault
          /\ Call("util.ObjectLoad", TRUE)
          /\ ObjectExists(vol[t])
          /\ vol' = [vol EXCEPT ![t] = ObjectLoad(vol[t])]
          /\ Result(t, Nil, VolumeInfo(ObjectLoad(vol[t]), req[t].Name))
    /\ Goto(t, "ret")
    /\ UNCHANGED <<store, cfgStore, remote, mounts, phase, driver, init, lock,
                   req, list, pre>>

\* -------------------------------------------------------------- ListVolume
\* mutant: ListVolume holds the lock while it calls GetVolumeInfo
ListVolume_Locked(t) ==
    /\ Enter(t, "ListVolume", "", NoOptions)
    /\ Lock(t)
    /\ \/ /\ Fault
          /\ Result(t, StorageError, <<>>)
          /\ Goto(t, "list_ret")
          /\ UNCHANGED list
       \/ /\ NoFault
          /\ list' = [list EXCEPT ![t] =
                         [active |-> TRUE, ids |-> ListConfigIDs,
                          volumes |-> ListConfigIDs, ret |-> <<>>]]
          /\ Goto(t, "list_loop")
          /\ UNCHANGED ret
    /\ UNCHANGED <<store, cfgStore, remote, mounts, phase, driver, init, vol>>

\* util.ListConfigIDs, without the lock
ListVolume(t) ==
    /\ Enter(t, "ListVolume", "", NoOptions)
    /\ \/ /\ Fault
          /\ Result(t, StorageError, <<>>)
          /\ Goto(t, "list_ret")
          /\ UNCHANGED list
       \/ /\ NoFault
          /\ list' = [list EXCEPT ![t] =
                         [active |-> TRUE, ids |-> ListConfigIDs,
                          volumes |-> ListConfigIDs, ret |-> <<>>]]
          /\ Goto(t, "list_loop")
          /\ UNCHANGED ret
    /\ UNCHANGED <<store, cfgStore, remote, mounts, phase, driver, init, lock,
                   vol, pre, calls, creates>>

\* the loop calls GetVolumeInfo for the next id, or ends
ListVolume_Loop(t) ==
    /\ pc[t] = "list_loop"
    /\ \/ /\ list[t].volumes = {}
          /\ Result(t, Nil, list[t].ret)
          /\ Goto(t, "list_ret")
          /\ list' = [list EXCEPT ![t] = [NoList EXCEPT !.ids = list[t].ids]]
          /\ UNCHANGED <<lock, req, vol, pre, calls, creates>>
       \/ /\ \E id \in list[t].volumes : GetVolumeInfo_Enter(t, id)
          /\ UNCHANGED <<ret, list>>
    /\ UNCHANGED <<store, cfgStore, remote, mounts, phase, driver, init,
                   faults>>

\* mutant: a name whose lookup failed is left out of the result
ListVolume_Got_SkipFailed(t) ==
    /\ pc[t] = "ret"
    /\ list[t].active
    /\ Unlock(t)
    /\ list' = [list EXCEPT
                    ![t].volumes = @ \ {req[t].Name},
                    ![t].ret = IF ret[t].err # Nil
                               THEN @
                               ELSE (req[t].Name :> ret[t].val) @@ @]
    /\ Goto(t, "list_loop")
    /\ ret' = [ret EXCEPT ![t] = NoReturn]
    /\ req' = [req EXCEPT ![t] =
                  [op |-> "ListVolume", Name |-> "", Options |-> NoOptions]]
    /\ vol' = [vol EXCEPT ![t] = ZeroVolume]
    /\ UNCHANGED <<store, cfgStore, remote, mounts, phase, driver, init,
                   faults>>

\* GetVolumeInfo has returned to the loop
ListVolume_Got(t) ==
    /\ pc[t] = "ret"
    /\ list[t].active
    /\ Unlock(t)
    /\ IF ret[t].err # Nil
       THEN /\ Result(t, ret[t].err, <<>>)
            /\ Goto(t, "list_ret")
            /\ list' = [list EXCEPT ![t] = [NoList EXCEPT !.ids = list[t].ids]]
       ELSE /\ list' = [list EXCEPT
                           ![t].volumes = @ \ {req[t].Name},
                           ![t].ret = (req[t].Name :> ret[t].val) @@ @]
            /\ Goto(t, "list_loop")
            /\ ret' = [ret EXCEPT ![t] = NoReturn]
    /\ req' = [req EXCEPT ![t] =
                  [op |-> "ListVolume", Name |-> "", Options |-> NoOptions]]
    /\ vol' = [vol EXCEPT ![t] = ZeroVolume]
    /\ UNCHANGED <<store, cfgStore, remote, mounts, phase, driver, init,
                   faults>>

ListVolume_Return(t) ==
    /\ pc[t] = "list_ret"
    /\ Goto(t, "idle")
    /\ req' = [req EXCEPT ![t] = NoRequest]
    /\ ret' = [ret EXCEPT ![t] = NoReturn]
    /\ list' = [list EXCEPT ![t] = NoList]
    /\ UNCHANGED <<store, cfgStore, remote, mounts, phase, driver, init, lock,
                   vol, pre, calls, creates, faults>>

\* ------------------------------------------------------------------ return
\* a client handler returns; the deferred Unlock runs
Return(t) ==
    /\ t \in Clients
    /\ pc[t] = "ret"
    /\ ~list[t].active
    /\ Unlock(t)
    /\ Goto(t, "idle")
    /\ req' = [req EXCEPT ![t] = NoRequest]
    /\ vol' = [vol EXCEPT ![t] = ZeroVolume]
    /\ ret' = [ret EXCEPT ![t] = NoReturn]
    /\ UNCHANGED <<store, cfgStore, remote, mounts, phase, driver, init, list,
                   faults>>

\* ------------------------------------------------------------------- Init
\* strings.Split of a character sequence
RECURSIVE Split(_, _)
Split(s, sep) ==
    IF \A i \in 1..Len(s) : s[i] # sep
    THEN <<s>>
    ELSE LET i == CHOOSE k \in 1..Len(s) :
                     s[k] = sep /\ \A j \in 1..(k - 1) : s[j] # sep
         IN <<SubSeq(s, 1, i - 1)>> \o Split(SubSeq(s, i + 1, Len(s)), sep)

\* net.SplitHostPort (no brackets in the alphabet): the last colon splits,
\* a missing colon or a colon in the host is an error
SplitHostPort(hostport) ==
    LET colons == {i \in 1..Len(hostport) : hostport[i] = ":"} IN
    IF colons = {}
    THEN [err |-> TRUE, host |-> <<>>]
    ELSE LET i == CHOOSE k \in colons : \A j \in colons : j <= k
             host == SubSeq(hostport, 1, i - 1)
         IN IF \E j \in 1..Len(host) : host[j] = ":"
            THEN [err |-> TRUE, host |-> <<>>]
            ELSE [err |-> FALSE, host |-> host]

\* util.ValidNetworkAddr: the host is an address or resolves
ResolvableHosts == {<<"h">>, <<"h", "1">>}
ValidNetworkAddr(host) == host \in ResolvableHosts

\* the registry loop of Init: every entry splits and has a valid host
ValidRegistries(registryList) ==
    LET entries == Split(registryList, ",") IN
    \A i \in 1..Len(entries) :
        /\ ~SplitHostPort(entries[i]).err
        /\ ValidNetworkAddr(SplitHostPort(entries[i]).host)

\* config[key] of a Go map: the zero value when the key is absent
EmptyString(key) == IF key = QUOBYTE_REGISTRIES THEN <<>> ELSE ""
ConfigGet(config, key) ==
    IF key \in DOMAIN config THEN config[key] ELSE EmptyString(key)
ConfigDefault(config, key, default) ==
    IF key \in DOMAIN config THEN config[key] ELSE default

\* the bootstrap options Init is started with
GoodRegistries == <<"h", ":", "1", ",", "h", "1", ":", "1">>
BootstrapConfigs ==
    { (QUOBYTE_API_URL :> "http://api") @@ (QUOBYTE_REGISTRIES :> GoodRegistries),
      (QUOBYTE_API_URL :> "http://api") @@ (QUOBYTE_REGISTRIES :> GoodRegistries)
          @@ (QUOBYTE_DEFAULT_GROUP :> "nfsnobody"),
      (QUOBYTE_REGISTRIES :> GoodRegistries),
      (QUOBYTE_API_URL :> "http://api") @@ (QUOBYTE_REGISTRIES :> <<>>),
      (QUOBYTE_API_URL :> "http://api") @@ (QUOBYTE_REGISTRIES :> <<"h">>),
      (QUOBYTE_API_URL :> "http://api")
          @@ (QUOBYTE_REGISTRIES :> <<"h", ":", "1", ",", "!", ":", "1">>) }

\* a Device record written by an earlier installation
SavedDevice ==
    [Root |-> Root, Registries |-> <<"h", ":", "1">>, User |-> "alice",
     Group |-> "staff", VolumeConfig |-> "FAST"]

\* the Device Init builds from the options when no record exists
NewDevice(config) ==
    [Root |-> Root,
     Registries |-> ConfigGet(config, QUOBYTE_REGISTRIES),
     User |-> ConfigDefault(config, QUOBYTE_DEFAULT_USER, "root"),
     Group |-> ConfigDefault(config, QUOBYTE_DEFAULT_GROUP, "nfsnobody"),
     VolumeConfig |->
         ConfigDefault(config, QUOBYTE_DEFAULT_VOLUME_CONFIG, "BASE")]

\* Init returns an error before a driver exists
Init_Fail(e) ==
    /\ phase' = "initret"
    /\ init' = [NoInit EXCEPT !.err = e, !.snap = store]
    /\ UNCHANGED driver

\* Init builds the driver and calls remountVolumes
Init_Driver(dev) ==
    /\ phase' = "remount_list"
    /\ driver' = dev
    /\ init' = [NoInit EXCEPT !.snap = store,
                              !.execs = [n \in Names |-> 0]]

\* mutant: the registry entries are not validated
Init_Config_NoValidation(config) ==
    /\ phase = "down"
    /\ \/ /\ Fault
          /\ Init_Fail(StorageError)
       \/ /\ NoFault
          /\ cfgStore # {}
          /\ \E dev \in cfgStore : Init_Driver(dev)
       \/ /\ NoFault
          /\ cfgStore = {}
          /\ IF \E r \in {QUOBYTE_API_URL, QUOBYTE_REGISTRIES} :
                    ConfigGet(config, r) = EmptyString(r)
             THEN Init_Fail(ConfigError)
             ELSE Init_Driver(NewDevice(config))
    /\ UNCHANGED <<store, cfgStore, remote, mounts, lock, pc, req, vol, ret,
                   list, pre, calls, creates>>

\* Init up to the call of remountVolumes
Init_Config(config) ==
    /\ phase = "down"
    /\ \/ /\ Fault
          /\ Init_Fail(StorageError)
       \/ /\ NoFault
          /\ cfgStore # {}
          /\ \E dev \in cfgStore : Init_Driver(dev)
       \/ /\ NoFault
          /\ cfgStore = {}
          /\ IF \E r \in {QUOBYTE_API_URL, QUOBYTE_REGISTRIES} :
                    ConfigGet(config, r) = EmptyString(r)
             THEN Init_Fail(ConfigError)
             ELSE IF ~ValidRegistries(ConfigGet(config, QUOBYTE_REGISTRIES))
             THEN Init_Fail(ConfigError)
             ELSE Init_Driver(NewDevice(config))
    /\ UNCHANGED <<store, cfgStore, remote, mounts, lock, pc, req, vol, ret,
                   list, pre, calls, creates>>

\* remountVolumes: util.ListConfigIDs
remountVolumes_List ==
    /\ phase = "remount_list"
    /\ \/ /\ Fault
          /\ phase' = "initret"
          /\ init' = [init EXCEPT !.err = StorageError]
       \/ /\ NoFault
          /\ phase' = "remount"
          /\ init' = [init EXCEPT !.volumes = ListConfigIDs]
    /\ UNCHANGED <<store, cfgStore, remote, mounts, driver, lock, pc, req, vol,
                   ret, list, pre, calls, creates>>

\* mutant: the loop remounts unmounted volumes too
remountVolumes_Loop_NoSkip(id) ==
    /\ phase = "remount"
    /\ pc[MainThread] = "idle"
    /\ id \in init.volumes
    /\ \/ /\ Fault
          /\ phase' = "initret"
          /\ init' = [init EXCEPT !.err = StorageError, !.failed = TRUE]
          /\ UNCHANGED <<lock, pc, req, vol, pre, calls, creates>>
       \/ /\ NoFault
          /\ MountVolume_Enter(MainThread, id, NoOptions)
          /\ UNCHANGED <<phase, init>>
    /\ UNCHANGED <<store, cfgStore, remote, mounts, driver, ret, list>>

\* remountVolumes: one round of the loop up to the call of MountVolume
remountVolumes_Loop(id) ==
    /\ phase = "remount"
    /\ pc[MainThread] = "idle"
    /\ id \in init.volumes
    /\ \/ /\ Fault
          /\ phase' = "initret"
          /\ init' = [init EXCEPT !.err = StorageError, !.failed = TRUE]
          /\ UNCHANGED <<lock, pc, req, vol, pre, calls, creates>>
       \/ /\ NoFault
          /\ ObjectLoad(blankVolume(id)).MountPoint = <<>>
          /\ init' = [init EXCEPT !.volumes = @ \ {id}]
          /\ UNCHANGED <<phase, lock, pc, req, vol, pre, calls, creates>>
       \/ /\ NoFault
          /\ ObjectLoad(blankVolume(id)).MountPoint # <<>>
          /\ MountVolume_Enter(MainThread, id, NoOptions)
          /\ UNCHANGED <<phase, init>>
    /\ UNCHANGED <<store, cfgStore, remote, mounts, driver, ret, list>>

\* mutant: a volume that fails to mount is skipped
remountVolumes_Mounted_Skip ==
    /\ phase = "remount"
    /\ pc[MainThread] = "ret"
    /\ Unlock(MainThread)
    /\ init' = [init EXCEPT !.volumes = @ \ {req[MainThread].Name},
                            !.failed = @ \/ ret[MainThread].err # Nil]
    /\ UNCHANGED phase
    /\ Goto(MainThread, "idle")
    /\ req' = [req EXCEPT ![MainThread] = NoRequest]
    /\ vol' = [vol EXCEPT ![MainThread] = ZeroVolume]
    /\ ret' = [ret EXCEPT ![MainThread] = NoReturn]
    /\ UNCHANGED <<store, cfgStore, remote, mounts, driver, list, faults>>

\* remountVolumes: MountVolume has returned
remountVolumes_Mounted ==
    /\ phase = "remount"
    /\ pc[MainThread] = "ret"
    /\ Unlock(MainThread)
    /\ IF ret[MainThread].err # Nil
       THEN /\ phase' = "initret"
            /\ init' = [init EXCEPT !.err = ret[MainThread].err,
                                    !.failed = TRUE]
       ELSE /\ init' = [init EXCEPT !.volumes = @ \ {req[MainThread].Name}]
            /\ UNCHANGED phase
    /\ Goto(MainThread, "idle")
    /\ req' = [req EXCEPT ![MainThread] = NoRequest]
    /\ vol' = [vol EXCEPT ![MainThread] = ZeroVolume]
    /\ ret' = [ret EXCEPT ![MainThread] = NoReturn]
    /\ UNCHANGED <<store, cfgStore, remote, mounts, driver, list, faults>>

\* remountVolumes: the loop is over, it returns nil
remountVolumes_Done ==
    /\ phase = "remount"
    /\ pc[MainThread] = "idle"
    /\ init.volumes = {}
    /\ phase' = "initret"
    /\ init' = [init EXCEPT !.err = Nil]
    /\ UNCHANGED <<store, cfgStore, remote, mounts, driver, lock, pc, req, vol,
                   ret, list, pre, calls, creates, faults>>

\* Init returns: the driver, or an error and no driver
Init_Return ==
    /\ phase = "initret"
    /\ IF init.err = Nil
       THEN /\ phase' = "up"
            /\ UNCHANGED driver
       ELSE /\ phase' = "down"
            /\ driver' = ZeroDevice
    /\ init' = NoInit
    /\ UNCHANGED <<store, cfgStore, remote, mounts, lock, pc, req, vol, ret,
                   list, pre, calls, creates, faults>>

\* ------------------------------------------------------------ environment
Quiescent == phase = "up" /\ \A t \in Threads : pc[t] = "idle"

\* the process stops (a crash in mid-operation is a failure); the host may
\* reboot, which drops the OS-level mounts
Crash ==
    /\ phase # "down"
    /\ IF Quiescent THEN NoFault ELSE Fault
    /\ phase' = "down"
    /\ driver' = ZeroDevice
    /\ init' = NoInit
    /\ lock' = NoThread
    /\ pc' = [t \in Threads |-> "idle"]
    /\ req' = [t \in Threads |-> NoRequest]
    /\ vol' = [t \in Threads |-> ZeroVolume]
    /\ ret' = [t \in Threads |-> NoReturn]
    /\ list' = [t \in Threads |-> NoList]
    /\ pre' = NoPre
    /\ calls' = {}
    /\ creates' = [n \in Names |->
                      IF n \in DOMAIN store THEN creates[n] ELSE NoCreate]
    /\ mounts' \in {mounts, {}}
    /\ UNCHANGED <<store, cfgStore, remote>>

\* ---------------------------------------------------------- specification
Init ==
    /\ store = <<>>
    /\ cfgStore \in {{}, {SavedDevice}}
    /\ remote = {}
    /\ mounts = {}
    /\ phase = "down"
    /\ driver = ZeroDevice
    /\ init = NoInit
    /\ lock = NoThread
    /\ pc = [t \in Threads |-> "idle"]
    /\ req = [t \in Threads |-> NoRequest]
    /\ vol = [t \in Threads |-> ZeroVolume]
    /\ ret = [t \in Threads |-> NoReturn]
    /\ list = [t \in Threads |-> NoList]
    /\ pre = NoPre
    /\ calls = {}
    /\ creates = [n \in Names |-> NoCreate]
    /\ faults = 0

\* the steps of Init and of the handlers that take the lock
NextProgram(names, refOpts, hints) ==
    \/ \E config \in BootstrapConfigs : Init_Config(config)
    \/ remountVolumes_List
    \/ \E id \in Names : remountVolumes_Loop(id)
    \/ remountVolumes_Mounted
    \/ remountVolumes_Done
    \/ Init_Return
    \/ \E t \in Clients, n \in names : CreateVolume(t, n)
    \/ \E t \in Threads : CreateVolume_Exists(t)
    \/ \E t \in Threads : CreateVolume_Remote(t)
    \/ \E t \in Threads : CreateVolume_Save(t)
    \/ \E t \in Clients, n \in names, o \in refOpts :
          DeleteVolume(t, n, o)
    \/ \E t \in Threads : DeleteVolume_Load(t)
    \/ \E t \in Threads : DeleteVolume_Remote(t)
    \/ \E t \in Threads : DeleteVolume_Delete(t)
    \/ \E t \in Clients, n \in names, h \in hints :
          MountVolume(t, n, h)
    \/ \E t \in Threads : MountVolume_Load(t)
    \/ \E t \in Threads : MountVolume_Exec(t)
    \/ \E t \in Threads : MountVolume_Save(t)
    \/ \E t \in Clients, n \in names : UmountVolume(t, n)
    \/ \E t \in Threads : UmountVolume_Load(t)
    \/ \E t \in Threads : UmountVolume_Exec(t)
    \/ \E t \in Threads : UmountVolume_Save(t)
    \/ \E t \in Clients, n \in names : GetVolumeInfo(t, n)
    \/ \E t \in Threads : GetVolumeInfo_Load(t)
    \/ \E t \in Threads : Return(t)

NextOf(refOpts, hints) == NextProgram(Names, refOpts, hints) \/ Crash

Next == NextOf(ReferenceOnlyOpts, MountPointOpts)

\* the handlers that change records, GetVolumeInfo, Init and the environment
Spec == Init /\ [][Next]_vars

\* the handlers that read without the lock
NextReadersOf(names) ==
    \/ \E t \in Clients, n \in names : MountPoint(t, n)
    \/ \E t \in Clients : MountPoint_Return(t)
    \/ \E t \in Clients : ListVolume(t)
    \/ \E t \in Clients : ListVolume_Loop(t)
    \/ \E t \in Clients : ListVolume_Got(t)
    \/ \E t \in Clients : ListVolume_Return(t)

NextReaders == NextReadersOf(Names)

\* every handler; the options reference_only and mount_point are absent
NextAll == NextOf({""}, {<<>>}) \/ NextReaders

SpecAll == Init /\ [][NextAll]_vars

\* every handler, on one volume name
LiveNames == {NamePool[1]}
NextLive ==
    \/ NextProgram(LiveNames, {""}, {<<>>})
    \/ NextReadersOf(LiveNames)
    \/ Crash

\* a goroutine inside a handler takes its next step, which does not wait
ThreadStep(t) ==
    \/ CreateVolume_Exists(t) \/ CreateVolume_Remote(t) \/ CreateVolume_Save(t)
    \/ DeleteVolume_Load(t) \/ DeleteVolume_Remote(t) \/ DeleteVolume_Delete(t)
    \/ MountVolume_Load(t) \/ MountVolume_Exec(t) \/ MountVolume_Save(t)
    \/ UmountVolume_Load(t) \/ UmountVolume_Exec(t) \/ UmountVolume_Save(t)
    \/ GetVolumeInfo_Load(t)
    \/ Return(t)
    \/ MountPoint_Return(t)
    \/ ListVolume_Got(t)
    \/ ListVolume_Return(t)

\* Init, once called, takes its next step
InitStep ==
    \/ remountVolumes_List
    \/ \E id \in Names : remountVolumes_Loop(id)
    \/ remountVolumes_Mounted
    \/ remountVolumes_Done
    \/ Init_Return

\* the scheduler runs every goroutine that can run; a goroutine waiting in
\* d.mutex.Lock() gets the mutex if it is free again and again (sync.Mutex
\* hands it to a starving waiter)
Fairness ==
    /\ \A t \in Threads : WF_vars(ThreadStep(t))
    /\ \A t \in Clients : SF_vars(ListVolume_Loop(t))
    /\ WF_vars(InitStep)

SpecLive == Init /\ [][NextLive]_vars /\ Fairness

\* -------------------------------------------------------------- properties
\* the handler of `op` has its return values and is about to return (the
\* deferred Unlock has not run yet, so pre and calls are those of this call)
AtReturn(t, op) == pc[t] = "ret" /\ req[t].op = op

\* what GetVolumeInfo reports for a stored record
StoredInfo(name) == VolumeInfo(ObjectLoad(blankVolume(name)), name)

\* C1: CreateVolume of a name that has a record returns AlreadyExists (once
\* the existence check has answered), never calls the remote client's
\* CreateVolume and leaves the stored records as they were.
C1_CreateExistingRejected ==
    \A t \in Clients :
        (AtReturn(t, "CreateVolume") /\ req[t].Name \in DOMAIN pre.store) =>
            /\ <<"util.ObjectExists", TRUE>> \in calls
                   => ret[t].err = AlreadyExists
            /\ ~Called("client.CreateVolume")
            /\ store = pre.store
            /\ remote = pre.remote

C1_Witness ==
    \E t \in Clients :
        /\ AtReturn(t, "CreateVolume")
        /\ req[t].Name \in DOMAIN pre.store
        /\ ret[t].err = AlreadyExists

\* C2: DeleteVolume of a volume recorded as mounted returns StillMounted
\* (once the record is loaded), whatever the reference-only option, never
\* calls the remote client's DeleteVolume and leaves the records unchanged;
\* no step removes a record whose mountPoint is not empty.
C2_MountedAtDelete(t) ==
    /\ AtReturn(t, "DeleteVolume")
    /\ req[t].Name \in DOMAIN pre.store
    /\ pre.store[req[t].Name].MountPoint # <<>>

C2_DeleteMountedRejected ==
    /\ [](\A t \in Clients :
            C2_MountedAtDelete(t) =>
                /\ <<"util.ObjectLoad", TRUE>> \in calls
                       => ret[t].err = StillMounted
                /\ ~Called("client.DeleteVolume")
                /\ store = pre.store
                /\ remote = pre.remote)
    /\ [][\A n \in DOMAIN store \ DOMAIN store' :
              store[n].MountPoint = <<>>]_vars

C2_Witness ==
    \E t \in Clients :
        /\ C2_MountedAtDelete(t)
        /\ ret[t].err = StillMounted
        /\ ParseBool(req[t].Options.reference_only)

\* C3: after a successful CreateVolume(n) GetVolumeInfo(n) reports an empty
\* MountPoint, after a successful MountVolume(n) the mount point MountVolume
\* returns (which is not empty), after a successful UmountVolume(n) an empty
\* one again; a successful GetVolumeInfo returns the stored record's info.
C3_RoundTrip ==
    \A t \in Threads :
        /\ (AtReturn(t, "CreateVolume") /\ ret[t].err = Nil) =>
              /\ req[t].Name \in DOMAIN store
              /\ StoredInfo(req[t].Name).MountPoint = <<>>
        /\ (AtReturn(t, "MountVolume") /\ ret[t].err = Nil) =>
              /\ req[t].Name \in DOMAIN store
              /\ ret[t].val # <<>>
              /\ StoredInfo(req[t].Name).MountPoint = ret[t].val
        /\ (AtReturn(t, "UmountVolume") /\ ret[t].err = Nil) =>
              /\ req[t].Name \in DOMAIN store
              /\ StoredInfo(req[t].Name).MountPoint = <<>>
        /\ (AtReturn(t, "GetVolumeInfo") /\ ret[t].err = Nil) =>
              /\ req[t].Name \in DOMAIN store
              /\ ret[t].val = StoredInfo(req[t].Name)

\* GetVolumeInfo reports the mount point of a volume mounted at the hint
C3_Witness ==
    \E t \in Clients :
        /\ AtReturn(t, "GetVolumeInfo")
        /\ ret[t].err = Nil
        /\ ret[t].val.MountPoint = MountPointHint

\* C4: when Init succeeds, remountVolumes has invoked the Mount Executor
\* exactly once for each volume recorded as mounted when Init started and
\* not at all for the others, every invocation has returned, and no client
\* request is in progress before Init has returned the driver.
C4_WasMounted(n) ==
    n \in DOMAIN init.snap /\ init.snap[n].MountPoint # <<>>

C4_RemountOnce ==
    /\ (phase = "initret" /\ init.err = Nil) =>
          /\ \A n \in Names :
                init.execs[n] = IF C4_WasMounted(n) THEN 1 ELSE 0
          /\ pc[MainThread] = "idle"
          /\ lock = NoThread
    /\ phase # "up" => \A t \in Clients : pc[t] = "idle"

\* Init succeeds with one volume remounted and one left alone
C4_Witness ==
    /\ phase = "initret"
    /\ init.err = Nil
    /\ \E n \in Names : C4_WasMounted(n) /\ init.execs[n] = 1
    /\ \E n \in DOMAIN init.snap : ~C4_WasMounted(n) /\ init.execs[n] = 0

\* C5: a failure during recovery aborts Init: a failed ListConfigIDs or
\* ObjectLoad, or an error returned by MountVolume, makes Init return an
\* error; Init then returns no driver; and when Init succeeds every volume
\* recorded as mounted is recorded as mounted and mounted at that place.
C5_Remounted(n) ==
    /\ n \in DOMAIN store
    /\ store[n].MountPoint # <<>>
    /\ <<store[n].Device, store[n].MountPoint>> \in mounts

C5_RecoveryFailureAborts ==
    /\ []((phase = "initret" /\ init.err = Nil) =>
            \A n \in Names : C4_WasMounted(n) => C5_Remounted(n))
    /\ []((phase = "down") => driver = ZeroDevice)
    /\ [][(/\ phase = "remount"
           /\ pc[MainThread] = "ret"
           /\ ret[MainThread].err # Nil) =>
              \/ phase' = "down"
              \/ phase' = "initret" /\ init'.err = ret[MainThread].err]_vars
    /\ [][(/\ phase \in {"remount_list", "remount"}
           /\ pc[MainThread] = "idle"
           /\ faults' # faults) =>
              \/ phase' = "down"
              \/ phase' = "initret" /\ init'.err # Nil]_vars
    /\ [][(phase = "initret" /\ init.err # Nil) =>
              (phase' = "down" /\ driver' = ZeroDevice)]_vars

\* Init is about to return the error of a failed remount
C5_Witness ==
    /\ phase = "initret"
    /\ init.err = MountError
    /\ init.failed
    /\ \E n \in Names : C4_WasMounted(n) /\ ~C5_Remounted(n)

\* C6: DeleteVolume with reference-only "true" on an existing unmounted
\* volume never calls the remote client's DeleteVolume, leaves the remote
\* volumes unchanged and, unless the store fails, removes the record.
C6_ReferenceOnlyAtDelete(t) ==
    /\ AtReturn(t, "DeleteVolume")
    /\ req[t].Options.reference_only = "true"
    /\ req[t].Name \in DOMAIN pre.store
    /\ pre.store[req[t].Name].MountPoint = <<>>

C6_ReferenceOnlyDelete ==
    \A t \in Clients :
        C6_ReferenceOnlyAtDelete(t) =>
            /\ ~Called("client.DeleteVolume")
            /\ remote = pre.remote
            /\ (\A c \in calls : c[2]) =>
                  /\ ret[t].err = Nil
                  /\ req[t].Name \notin DOMAIN store

C6_Witness ==
    \E t \in Clients :
        /\ C6_ReferenceOnlyAtDelete(t)
        /\ ret[t].err = Nil
        /\ req[t].Name \notin DOMAIN store
        /\ pre.store[req[t].Name].ID \in remote

\* C7: when the remote client's call fails, CreateVolume and DeleteVolume
\* return that error and the stored records are those before the call: no
\* record is written by the create, the record is kept by the delete.
C7_RemoteFailureKeepsStore ==
    \A t \in Clients :
        /\ (AtReturn(t, "CreateVolume")
               /\ <<"client.CreateVolume", FALSE>> \in calls) =>
              /\ ret[t].err = RemoteError
              /\ store = pre.store
              /\ req[t].Name \notin DOMAIN store
        /\ (AtReturn(t, "DeleteVolume")
               /\ <<"client.DeleteVolume", FALSE>> \in calls) =>
              /\ ret[t].err = RemoteError
              /\ store = pre.store
              /\ req[t].Name \in DOMAIN store

C7_Witness ==
    \E t \in Clients :
        /\ AtReturn(t, "DeleteVolume")
        /\ <<"client.DeleteVolume", FALSE>> \in calls
        /\ ret[t].err = RemoteError

\* C8: when util.VolumeMount fails, MountVolume returns the error and the
\* stored record is unchanged (an unmounted volume stays recorded as
\* unmounted); when util.VolumeUmount fails, UmountVolume returns the error
\* and the stored record is unchanged (it keeps its mountPoint).
C8_MountFailureKeepsRecord ==
    \A t \in Threads :
        /\ (AtReturn(t, "MountVolume")
               /\ <<"util.VolumeMount", FALSE>> \in calls) =>
              /\ ret[t].err = MountError
              /\ ret[t].val = <<>>
              /\ store = pre.store
        /\ (AtReturn(t, "UmountVolume")
               /\ <<"util.VolumeUmount", FALSE>> \in calls) =>
              /\ ret[t].err = UnmountError
              /\ store = pre.store

\* a failed mount of an unmounted volume
C8_Witness ==
    \E t \in Clients :
        /\ AtReturn(t, "MountVolume")
        /\ <<"util.VolumeMount", FALSE>> \in calls
        /\ store[req[t].Name].MountPoint = <<>>

\* C9 (as claimed): a handler that returns an error leaves the stored
\* records, the remote volumes and the OS-level mounts as they were.
C9_AllOrNothing ==
    \A t \in Clients :
        (pc[t] = "ret" /\ ret[t].err # Nil) =>
            /\ store = pre.store
            /\ remote = pre.remote
            /\ mounts = pre.mounts

\* C10: a mutating handler is between its first store access and its return
\* only while it holds d.mutex, so at most one is there at any time.
MutatingOps == {"CreateVolume", "DeleteVolume", "MountVolume", "UmountVolume"}
InHandler(t) == req[t].op \in MutatingOps /\ pc[t] # "idle"

C10_MutualExclusion ==
    /\ \A t \in Threads : InHandler(t) => lock = t
    /\ Cardinality({t \in Threads : InHandler(t)}) <= 1

\* a handler waits in its external call, holding the lock, while the other
\* client has nothing in progress
C10_Witness ==
    \E t \in Clients :
        /\ pc[t] = "create_remote"
        /\ lock = t
        /\ \A u \in Clients \ {t} : pc[u] = "idle"

\* C11 (as claimed): GetVolumeInfo, ListVolume and MountPoint never hold
\* d.mutex, so each of them can run while another handler holds it.
ReadOnlyOps == {"GetVolumeInfo", "ListVolume", "MountPoint"}

C11_ReadersTakeNoLock ==
    \A t \in Clients : req[t].op \in ReadOnlyOps => lock # t

\* C12 (as claimed): once Init has built the driver, the Device it runs with
\* is in the record store, before recovery starts and after Init returns.
C12_InitPersistsConfig ==
    phase \in {"remount_list", "remount", "up"} => driver \in cfgStore

\* C13: without a Device record, Init with a missing or empty API URL or
\* registry list, or with a registry entry that does not split into
\* host:port or whose host is not valid, fails with a configuration error:
\* no Device record is written, no driver exists, remountVolumes does not run
\* and no record or mount changes.
C13_BadOptions(config) ==
    LET url == ConfigGet(config, QUOBYTE_API_URL)
        registryList == ConfigGet(config, QUOBYTE_REGISTRIES)
        entries == Split(registryList, ",")
    IN \/ url = ""
       \/ registryList = <<>>
       \/ \E i \in 1..Len(entries) :
             \/ SplitHostPort(entries[i]).err
             \/ ~ValidNetworkAddr(SplitHostPort(entries[i]).host)

C13_ConfigErrorNoEffect ==
    /\ [](init.err = ConfigError =>
             /\ phase = "initret"
             /\ driver = ZeroDevice
             /\ cfgStore = {}
             /\ init.execs = <<>>
             /\ store = init.snap
             /\ \A t \in Threads : pc[t] = "idle")
    /\ [][\A config \in BootstrapConfigs :
             (/\ cfgStore = {}
              /\ C13_BadOptions(config)
              /\ faults' = faults
              /\ Init_Config(config)) =>
                 /\ init'.err = ConfigError
                 /\ UNCHANGED <<store, cfgStore, remote, mounts, driver>>]_vars
    /\ [][(init.err = ConfigError /\ Init_Return) =>
             /\ phase' = "down"
             /\ driver' = ZeroDevice
             /\ UNCHANGED <<store, cfgStore, remote, mounts>>]_vars

\* Init is about to return the configuration error, on a root whose volume
\* records show an earlier installation
C13_Witness ==
    /\ phase = "initret"
    /\ init.err = ConfigError
    /\ cfgStore = {}
    /\ DOMAIN store # {}

\* C14: ListVolume returns an error and no map as soon as one lookup fails;
\* when it succeeds the map has exactly one entry for every name that was
\* enumerated, and each entry is what GetVolumeInfo returned for that name
\* (the stored record's fields at the time of the lookup).
C14_LookupReturned(t) == pc[t] = "ret" /\ list[t].active

C14_NoPartialResults ==
    /\ [](\A t \in Clients :
             /\ pc[t] = "list_ret" =>
                   IF ret[t].err # Nil
                   THEN ret[t].val = <<>>
                   ELSE /\ DOMAIN ret[t].val = list[t].ids
                        /\ \A n \in list[t].ids : ret[t].val[n].VolumeName = n
             /\ (C14_LookupReturned(t) /\ ret[t].err = Nil) =>
                   ret[t].val = StoredInfo(req[t].Name))
    /\ [][\A t \in Clients :
             (C14_LookupReturned(t) /\ pc'[t] # pc[t] /\ phase' = "up") =>
                 IF ret[t].err # Nil
                 THEN /\ pc'[t] = "list_ret"
                      /\ ret'[t] = [err |-> ret[t].err, val |-> <<>>]
                 ELSE /\ pc'[t] = "list_loop"
                      /\ list'[t].ids = list[t].ids
                      /\ list'[t].ret =
                            (req[t].Name :> ret[t].val) @@ list[t].ret]_vars
    /\ [][\A t \in Clients :
             (pc[t] = "list_loop" /\ pc'[t] = "list_ret") =>
                 /\ list[t].volumes = {}
                 /\ ret'[t] = [err |-> Nil, val |-> list[t].ret]]_vars

\* ListVolume returns an error after one lookup succeeded and another failed
C14_Witness ==
    \E t \in Clients :
        /\ pc[t] = "list_ret"
        /\ ret[t].err # Nil
        /\ Cardinality(list[t].ids) = 2

\* C15 (as claimed): when remountVolumes has succeeded, every record that
\* was there when Init started is still there with the MountPoint it had,
\* and the records with an empty MountPoint are unchanged.
C15_RecoveryKeepsMountPoints ==
    (phase = "initret" /\ init.err = Nil) =>
        \A n \in DOMAIN init.snap :
            /\ n \in DOMAIN store
            /\ store[n].MountPoint = init.snap[n].MountPoint
            /\ init.snap[n].MountPoint = <<>> => store[n] = init.snap[n]

\* C16: UmountVolume of a volume whose record has an empty MountPoint leaves
\* that record in the store exactly as it was, whether it returns nil or an
\* error.
C16_UnmountedAtUmount(t) ==
    /\ AtReturn(t, "UmountVolume")
    /\ req[t].Name \in DOMAIN pre.store
    /\ pre.store[req[t].Name].MountPoint = <<>>

C16_UmountUnmountedKeepsRecord ==
    \A t \in Clients :
        C16_UnmountedAtUmount(t) =>
            /\ req[t].Name \in DOMAIN store
            /\ store[req[t].Name] = pre.store[req[t].Name]
            /\ store[req[t].Name].MountPoint = <<>>

\* UmountVolume of an unmounted volume went through util.VolumeUmount and
\* util.ObjectSave and returns nil
C16_Witness ==
    \E t \in Clients :
        /\ C16_UnmountedAtUmount(t)
        /\ <<"util.ObjectSave", TRUE>> \in calls
        /\ ret[t].err = Nil

\* C17: when the external calls return and the scheduler is fair, every
\* handler that was entered returns and Init, once called, returns; ListVolume
\* does not hold d.mutex when it calls GetVolumeInfo, nor does remountVolumes
\* when it calls MountVolume.
C17_CallsWithoutLock ==
    /\ \A t \in Clients : pc[t] = "list_loop" => lock # t
    /\ (phase = "remount" /\ pc[MainThread] = "idle") => lock # MainThread

C17_DeadlockFree ==
    /\ []C17_CallsWithoutLock
    /\ \A t \in Clients : (pc[t] # "idle") ~> (pc[t] = "idle")
    /\ (phase \in {"remount_list", "remount", "initret"})
           ~> (phase \in {"up", "down"})

\* ListVolume is about to call GetVolumeInfo while another handler holds the
\* lock in its external call
C17_Witness ==
    \E t \in Clients, u \in Clients :
        /\ pc[t] = "list_loop"
        /\ list[t].volumes # {}
        /\ lock = u
        /\ pc[u] = "delete_remote"

\* C18: of the CreateVolume calls for one name that run, in any order of
\* taking the lock, from the moment the name has no record and without a
\* failing remote or store call, one returns nil and the others return
\* AlreadyExists; the remote client's CreateVolume is called once, and the
\* record holds the id that call returned.
C18_NoFailedCall == \A c \in calls : c[2]

C18_ConcurrentCreates ==
    /\ \A n \in Names :
          /\ creates[n].remote <= 1
          /\ creates[n].ok <= creates[n].remote
          /\ n \in DOMAIN store <=> creates[n].ok = 1
          /\ n \in DOMAIN store => store[n].ID = creates[n].id
    /\ \A t \in Clients :
          (AtReturn(t, "CreateVolume") /\ C18_NoFailedCall) =>
              /\ ret[t].err \in {Nil, AlreadyExists}
              /\ ret[t].err = AlreadyExists <=>
                     req[t].Name \in DOMAIN pre.store
              /\ ret[t].err = AlreadyExists =>
                     /\ ~Called("client.CreateVolume")
                     /\ creates = [n \in Names |->
                                      IF n \in DOMAIN store
                                      THEN [remote |-> 1, ok |-> 1,
                                            id |-> store[n].ID]
                                      ELSE creates[n]]

\* both clients called CreateVolume for the same name: one is returning
\* AlreadyExists, the record holds the id of the single remote call, and no
\* call has failed so far
C18_Witness ==
    \E t \in Clients :
        /\ AtReturn(t, "CreateVolume")
        /\ ret[t].err = AlreadyExists
        /\ creates[req[t].Name].remote = 1
        /\ creates[req[t].Name].ok = 1
        /\ store[req[t].Name].ID = creates[req[t].Name].id
        /\ faults = 0

\* C19 (as claimed): when no external call has failed, ListVolume returns
\* nil: every name it enumerated still has a record when GetVolumeInfo loads
\* it.
C19_ListAlwaysSucceeds ==
    \A t \in Clients :
        (pc[t] = "list_ret" /\ faults = 0) => ret[t].err = Nil

\* C20: a step changes the record of a name (creates, rewrites or removes
\* it) only as a step of the lock holder inside CreateVolume, DeleteVolume,
\* MountVolume or UmountVolume for that very name; no step of GetVolumeInfo,
\* MountPoint or ListVolume changes a record; no handler changes the Device
\* record or the Device the driver runs with.
C20_RecordChanged(m) ==
    \/ (m \in DOMAIN store) # (m \in DOMAIN store')
    \/ m \in DOMAIN store /\ m \in DOMAIN store' /\ store[m] # store'[m]

C20_Frame ==
    /\ [][\A m \in Names :
             C20_RecordChanged(m) =>
                 /\ lock \in Threads
                 /\ pc'[lock] # pc[lock]
                 /\ req[lock].op \in MutatingOps
                 /\ req[lock].Name = m]_vars
    /\ [][\A t \in Clients :
             (pc'[t] # pc[t] /\ {req[t].op, req'[t].op} \cap ReadOnlyOps # {})
                 => UNCHANGED <<store, cfgStore>>]_vars
    /\ [][/\ cfgStore' = cfgStore
          /\ (phase = "up" /\ phase' = "up") => driver' = driver]_vars

\* DeleteVolume has removed the record of its name while the other name has
\* a mounted record, which is as it was when the lock was taken
C20_Witness ==
    \E t \in Clients, m \in Names :
        /\ AtReturn(t, "DeleteVolume")
        /\ ret[t].err = Nil
        /\ req[t].Name \notin DOMAIN store
        /\ m # req[t].Name
        /\ m \in DOMAIN store
        /\ store[m].MountPoint # <<>>
        /\ store[m] = pre.store[m]

====
